---- MODULE Spec2Model ----
(***************************************************************************)
(* Portfolio allocation and rebalancing of the PolyHedge results page:     *)
(* the three triggers of ResultsPage (handleUpdateBet, handleUpdateBudget, *)
(* handleReset), the asynchronous re-aggregation (recalculatemetrics) and  *)
(* the metrics library (calculateRiskScore, calculateBundleMetrics,        *)
(* calculatePortfolioMetrics).                                             *)
(*                                                                         *)
(* JavaScript numbers are modelled as exact rationals <<n, d>> in lowest   *)
(* terms with d > 0; NaN is <<0, 0>>.  Rounding errors of doubles (about   *)
(* 1e-16 relative) are far below the tolerances the properties state, so   *)
(* "equal within 1e-6" is checked as exact equality of rationals.          *)
(* Strings are sequences of one-character strings.                         *)
(***************************************************************************)
EXTENDS Integers, Sequences, FiniteSets, TLC

-----------------------------------------------------------------------------
(* Bounds of the model *)

\* number of triggers (handler calls) issued after the load
MaxOps == 2
\* number of recalculatemetrics calls that may be awaiting their import
MaxPending == 2
\* length of the bet lists handed directly to calculateRiskScore
MaxRiskBets == 2
\* the longest bundle list handed to calculatePortfolioMetrics directly
MaxMetricBundles == 2
\* the number of SSE messages of a response body
MaxMessages == 2

-----------------------------------------------------------------------------
(* Numbers *)

Abs(n) == IF n < 0 THEN -n ELSE n

RECURSIVE GCD(_, _)
GCD(a, b) == IF b = 0 THEN a ELSE GCD(b, a % b)

NaN == <<0, 0>>
IsNaN(x) == x[2] = 0

\* The operators below take their arguments through bound variables
\* (a \in {x}), so that an argument that is itself a long expression is
\* evaluated once.

\* the rational n/d (d # 0) in lowest terms
FracV(n, d) ==
    LET g == GCD(Abs(n), Abs(d))
        s == IF d < 0 THEN -1 ELSE 1
    IN  <<(s * n) \div g, (s * d) \div g>>
Frac(n, d) == CHOOSE r \in {FracV(a, b) : a \in {n}, b \in {d}} : TRUE

R(n) == <<n, 1>>
Zero == R(0)

\* sums and comparisons go through the least common denominator and products
\* cancel crosswise first, so that intermediate integers stay small
AddV(x, y) ==
    LET g == GCD(x[2], y[2])
    IN  FracV(x[1] * (y[2] \div g) + y[1] * (x[2] \div g), (x[2] \div g) * y[2])
MulV(x, y) ==
    LET g1 == GCD(Abs(x[1]), y[2])
        g2 == GCD(Abs(y[1]), x[2])
    IN  IF x[1] = 0 \/ y[1] = 0 THEN <<0, 1>>
        ELSE <<(x[1] \div g1) * (y[1] \div g2), (x[2] \div g2) * (y[2] \div g1)>>
LtV(x, y) ==
    LET g == GCD(x[2], y[2]) IN x[1] * (y[2] \div g) < y[1] * (x[2] \div g)
NegV(x) == <<-x[1], x[2]>>
InvV(x) == IF x[1] < 0 THEN <<-x[2], -x[1]>> ELSE <<x[2], x[1]>>

RAdd(x, y) == CHOOSE r \in {AddV(a, b) : a \in {x}, b \in {y}} : TRUE
RSub(x, y) == CHOOSE r \in {AddV(a, NegV(b)) : a \in {x}, b \in {y}} : TRUE
RMul(x, y) == CHOOSE r \in {MulV(a, b) : a \in {x}, b \in {y}} : TRUE
RDiv(x, y) == CHOOSE r \in {MulV(a, InvV(b)) : a \in {x}, b \in {y}} : TRUE
RLt(x, y) == \E a \in {x}, b \in {y} : LtV(a, b)
RLe(x, y) == \E a \in {x}, b \in {y} : ~LtV(b, a)
RAbs(x) == CHOOSE r \in {<<Abs(a[1]), a[2]>> : a \in {x}} : TRUE

\* Math.min / Math.max of two numbers
MathMin(x, y) == CHOOSE r \in {IF LtV(b, a) THEN b ELSE a : a \in {x}, b \in {y}} : TRUE
MathMax(x, y) == CHOOSE r \in {IF LtV(a, b) THEN b ELSE a : a \in {x}, b \in {y}} : TRUE

\* the JavaScript idiom  x || dflt  on numbers: 0 and NaN are falsy
OrElse(x, dflt) ==
    CHOOSE r \in {IF IsNaN(a) \/ a = Zero THEN dflt ELSE a : a \in {x}} : TRUE

\* Array.prototype.reduce((sum, v) => sum + v, 0) over a sequence of numbers
RECURSIVE SumTo(_, _)
SumTo(s, n) == IF n = 0 THEN Zero ELSE RAdd(SumTo(s, n - 1), s[n])
SumSeq(s) == CHOOSE r \in {SumTo(v, Len(v)) : v \in {s}} : TRUE

\* a sequence given by a function expression, held as a tuple of its elements
Array(s) == <<>> \o s

-----------------------------------------------------------------------------
(* Strings of the budget field *)

DigitChars == <<"0", "1", "2", "3", "4", "5", "6", "7", "8", "9">>
IsDigit(c) == \E k \in 1..10 : DigitChars[k] = c
DigitVal(c) == (CHOOSE k \in 1..10 : DigitChars[k] = c) - 1

RECURSIVE Pow10(_)
Pow10(k) == IF k = 0 THEN 1 ELSE 10 * Pow10(k - 1)

\* length of the longest prefix of s made of decimal digits
RECURSIVE DigitRun(_)
DigitRun(s) == IF s # <<>> /\ IsDigit(Head(s)) THEN 1 + DigitRun(Tail(s)) ELSE 0

\* value of a sequence of digits (0 for the empty sequence)
RECURSIVE DigitsVal(_)
DigitsVal(s) == IF s = <<>> THEN 0 ELSE 10 * DigitsVal(SubSeq(s, 1, Len(s) - 1)) + DigitVal(s[Len(s)])

\* parseFloat: optional sign, digits, optional fraction; the longest prefix that
\* is a decimal literal is taken and the rest ignored; NaN when there is none
parseFloat(s) ==
    LET neg  == s # <<>> /\ Head(s) = "-"
        body == IF s # <<>> /\ Head(s) \in {"-", "+"} THEN Tail(s) ELSE s
        ni   == DigitRun(body)
        rest == SubSeq(body, ni + 1, Len(body))
        nf   == IF rest # <<>> /\ Head(rest) = "." THEN DigitRun(Tail(rest)) ELSE 0
        ip   == DigitsVal(SubSeq(body, 1, ni))
        fp   == DigitsVal(SubSeq(rest, 2, nf + 1))
        mag  == Frac(ip * Pow10(nf) + fp, Pow10(nf))
    IN  IF ni = 0 /\ nf = 0 THEN NaN
        ELSE IF neg THEN <<-mag[1], mag[2]>> ELSE mag

\* decimal digits of a natural number
RECURSIVE NatDigits(_)
NatDigits(n) == IF n < 10 THEN <<DigitChars[n + 1]>> ELSE NatDigits(n \div 10) \o <<DigitChars[(n % 10) + 1]>>

\* Number.prototype.toFixed(0): the nearest integer, ties to the larger magnitude
toFixed0(x) ==
    LET a == Abs(x[1])
        n == (2 * a + x[2]) \div (2 * x[2])
    IN  IF IsNaN(x) THEN <<"N", "a", "N">>
        ELSE IF x[1] < 0 THEN <<"-">> \o NatDigits(n) ELSE NatDigits(n)

-----------------------------------------------------------------------------
(* Metrics library *)

Half == Frac(1, 2)

\* the largest k in lo..hi with k * k <= q, by bisection
RECURSIVE ISqrt(_, _, _)
ISqrt(q, lo, hi) ==
    IF lo >= hi THEN lo
    ELSE CHOOSE r \in {IF m * m <= q THEN ISqrt(q, m, hi) ELSE ISqrt(q, lo, m - 1) :
                          m \in {(lo + hi + 1) \div 2}} : TRUE

\* the integer part of 10^k * n / d, by long division (no product beyond 10 * d)
RECURSIVE LongDiv(_, _, _)
LongDiv(n, d, k) ==
    IF k = 0 THEN <<n \div d, n % d>>
    ELSE CHOOSE r \in {<<10 * p[1] + (10 * p[2]) \div d, (10 * p[2]) % d>> :
                          p \in {LongDiv(n, d, k - 1)}} : TRUE
Scaled(n, d, k) == LongDiv(n, d, k)[1]

\* Math.sqrt on [0, 1], to two decimals (rounded down): the largest r/100 whose
\* square does not exceed x
MathSqrt(x) ==
    CHOOSE s \in {Frac(ISqrt(Scaled(v[1], v[2], 4), 0, 100), 100) : v \in {x}} : TRUE

\* a scaling of the standard deviation that leaves out the clamp at 100
ScaledStdDevUnclamped(sd) == RMul(sd, R(400))

\* the clamp of the scaled standard deviation, Math.min(sd * 400, 100.0)
ScaledStdDev(sd) == MathMin(RMul(sd, R(400)), R(100))

\* a score whose individual-risk part grows with the distance from 0.5
RiskFromDistance(prices, allocations, totalAlloc) ==
    LET n == Len(prices)
        weights == Array([i \in 1..n |-> RDiv(allocations[i], totalAlloc)])
        portfolioVariance ==
            SumSeq([i \in 1..n |->
                CHOOSE t \in {RMul(RMul(w, w), RMul(q, RSub(R(1), q))) :
                                 w \in {weights[i]}, q \in {prices[i]}} : TRUE])
        riskScore    == ScaledStdDev(MathSqrt(portfolioVariance))
        avgPriceDist == RDiv(SumSeq([i \in 1..n |-> RAbs(RSub(prices[i], Half))]), R(n))
        avgIndRisk   == RMul(RMul(avgPriceDist, R(2)), R(100))
    IN  RAdd(RMul(Frac(7, 10), riskScore), RMul(Frac(3, 10), avgIndRisk))

\* the score from the prices, the allocations and their sum (lines 39-57)
RiskFrom(prices, allocations, totalAlloc) ==
    LET n == Len(prices)
        weights == Array([i \in 1..n |-> RDiv(allocations[i], totalAlloc)])
        portfolioVariance ==
            SumSeq([i \in 1..n |->
                \* w * w * p * (1 - p)
                CHOOSE t \in {RMul(RMul(w, w), RMul(q, RSub(R(1), q))) :
                                 w \in {weights[i]}, q \in {prices[i]}} : TRUE])
        portfolioStdDev == MathSqrt(portfolioVariance)
        riskScore    == ScaledStdDev(portfolioStdDev)
        avgPriceDist == RDiv(SumSeq([i \in 1..n |-> RAbs(RSub(prices[i], Half))]), R(n))
        avgIndRisk   == RMul(RSub(R(1), RMul(avgPriceDist, R(2))), R(100))
    IN  RAdd(RMul(Frac(7, 10), riskScore), RMul(Frac(3, 10), avgIndRisk))

\* calculateRiskScore returning 0 only for an allocation sum of exactly 0
calculateRiskScoreZeroSumOnly(bets) ==
    IF Len(bets) = 0 THEN Zero
    ELSE CHOOSE r \in
            { IF totalAlloc = Zero THEN Zero
              ELSE RiskFrom(prices, allocations, totalAlloc) :
                prices \in {Array([i \in 1..Len(bets) |-> OrElse(bets[i].current_price, Half)])},
                allocations \in {Array([i \in 1..Len(bets) |-> bets[i].allocation])},
                totalAlloc \in {SumSeq([i \in 1..Len(bets) |-> bets[i].allocation])} } : TRUE

\* calculateRiskScore(bets), bets a sequence of bet records
calculateRiskScore(bets) ==
    IF Len(bets) = 0 THEN Zero
    ELSE CHOOSE r \in
            { IF RLe(totalAlloc, Zero) THEN Zero
              ELSE RiskFrom(prices, allocations, totalAlloc) :
                prices \in {Array([i \in 1..Len(bets) |-> OrElse(bets[i].current_price, Half)])},
                allocations \in {Array([i \in 1..Len(bets) |-> bets[i].allocation])},
                totalAlloc \in {SumSeq([i \in 1..Len(bets) |-> bets[i].allocation])} } : TRUE

\* Math.max(...xs) / Math.min(...xs) over a non-empty sequence
RECURSIVE MaxSeq(_)
MaxSeq(s) == IF Len(s) = 1 THEN s[1] ELSE MathMax(MaxSeq(SubSeq(s, 1, Len(s) - 1)), s[Len(s)])
RECURSIVE MinSeq(_)
MinSeq(s) == IF Len(s) = 1 THEN s[1] ELSE MathMin(MinSeq(SubSeq(s, 1, Len(s) - 1)), s[Len(s)])

\* calculateBundleMetrics with an average multiplier of 0 for a bundle without allocation
BundleMetricsZeroMultiplier(bets) ==
    LET totalAllocation == SumSeq([i \in 1..Len(bets) |-> bets[i].allocation])
        payouts         == Array([i \in 1..Len(bets) |-> bets[i].potential_payout])
        weightedSum     == SumSeq([i \in 1..Len(bets) |->
                               RMul(bets[i].allocation, bets[i].payout_multiplier)])
    IN  IF Len(bets) = 0
        THEN [total_allocation |-> Zero, num_markets |-> 0,
              avg_payout_multiplier |-> R(1), max_payout |-> Zero, min_payout |-> Zero,
              total_max_payout |-> Zero, risk_score |-> Zero]
        ELSE [total_allocation |-> totalAllocation, num_markets |-> Len(bets),
              avg_payout_multiplier |-> IF RLt(Zero, totalAllocation)
                                        THEN RDiv(weightedSum, totalAllocation) ELSE Zero,
              max_payout |-> MaxSeq(payouts), min_payout |-> MinSeq(payouts),
              total_max_payout |-> SumSeq(payouts), risk_score |-> calculateRiskScore(bets)]

\* calculateBundleMetrics(bundle), bundle a record whose bets are bet records
BundleMetricsOf(bets) ==
    LET totalAllocation == SumSeq([i \in 1..Len(bets) |-> bets[i].allocation])
        payouts         == Array([i \in 1..Len(bets) |-> bets[i].potential_payout])
        totalMaxPayout  == SumSeq(payouts)
        riskScore       == calculateRiskScore(bets)
        weightedSum     == SumSeq([i \in 1..Len(bets) |->
                               RMul(bets[i].allocation, bets[i].payout_multiplier)])
        avgMultiplier   == IF RLt(Zero, totalAllocation)
                           THEN RDiv(weightedSum, totalAllocation) ELSE R(1)
    IN  IF Len(bets) = 0
        THEN [total_allocation |-> Zero, num_markets |-> 0,
              avg_payout_multiplier |-> R(1), max_payout |-> Zero, min_payout |-> Zero,
              total_max_payout |-> Zero, risk_score |-> Zero]
        ELSE [total_allocation |-> totalAllocation, num_markets |-> Len(bets),
              avg_payout_multiplier |-> avgMultiplier,
              max_payout |-> MaxSeq(payouts), min_payout |-> MinSeq(payouts),
              total_max_payout |-> totalMaxPayout, risk_score |-> riskScore]
calculateBundleMetrics(bundle) ==
    CHOOSE m \in {BundleMetricsOf(bets) : bets \in {bundle.bets}} : TRUE

RECURSIVE SumNat(_)
SumNat(s) == IF s = <<>> THEN 0 ELSE s[1] + SumNat(Tail(s))

\* calculatePortfolioMetrics(bundles)
PortfolioMetricsOf(bundles, bundleMetrics) ==
    LET totalAllocated  == SumSeq([i \in 1..Len(bundles) |-> bundles[i].total_allocated])
        totalMaxPayout  == SumSeq([i \in 1..Len(bundles) |-> bundleMetrics[i].total_max_payout])
        totalRiskWeight == SumSeq([i \in 1..Len(bundles) |->
                               RMul(bundleMetrics[i].risk_score, bundleMetrics[i].total_allocation)])
        overallRisk     == IF RLt(Zero, totalAllocated)
                           THEN RDiv(totalRiskWeight, totalAllocated) ELSE Zero
    IN  [total_budget |-> IF Len(bundles) = 0 THEN Zero ELSE OrElse(bundles[1].budget, Zero),
         total_allocated |-> totalAllocated,
         num_bundles |-> Len(bundles),
         total_markets |-> SumNat([i \in 1..Len(bundles) |-> Len(bundles[i].bets)]),
         overall_risk_score |-> overallRisk,
         total_max_payout |-> totalMaxPayout,
         bundle_metrics |-> bundleMetrics]
calculatePortfolioMetrics(bundles) ==
    CHOOSE m \in {PortfolioMetricsOf(bundles, bundleMetrics) :
                     bundleMetrics \in {Array([i \in 1..Len(bundles) |->
                                                  calculateBundleMetrics(bundles[i])])}} : TRUE

-----
(* The three triggers on bundle values (bets as records) *)

\* a rescaling that forgets the payout
ScaleBetAllocationOnly(bet, scale) ==
    [bet EXCEPT !.allocation = RMul(bet.allocation, scale)]

\* the rescaling of a bet by a factor: { ...bet, allocation * scale, potential_payout * scale }
ScaleBet(bet, scale) ==
    [bet EXCEPT !.allocation = RMul(bet.allocation, scale),
                !.potential_payout = RMul(bet.potential_payout, scale)]

\* a share that ignores the current weights of the other bets
ShareEqually(bet, currentSumOthers, nOthers) == Frac(1, nOthers)

\* the share of the remainder an untouched bet receives
Share(bet, currentSumOthers, nOthers) ==
    IF RLt(Zero, currentSumOthers) THEN RDiv(bet.allocation, currentSumOthers)
    ELSE Frac(1, nOthers)

\* the clamp of the requested allocation, Math.min(Math.max(value, 0), totalBudget)
Clamp(value, totalBudget) == MathMin(MathMax(value, Zero), totalBudget)

\* handleUpdateBet, field 'allocation', on one bundle; betIndex counts from 1
UpdateAllocation(bundle, betIndex, value) ==
    LET bets          == bundle.bets
        totalBudget   == OrElse(bundle.budget, R(100))
        newAllocation == Clamp(value, totalBudget)
        remainder     == RSub(totalBudget, newAllocation)
        others        == {i \in 1..Len(bets) : i # betIndex}
        otherAllocs   == [i \in 1..Len(bets) |-> IF i = betIndex THEN Zero ELSE bets[i].allocation]
        currentSumOthers == SumSeq(otherAllocs)
        newAlloc(i)   == RMul(remainder, Share(bets[i], currentSumOthers, Cardinality(others)))
    IN  [bundle EXCEPT
            !.bets = Array([i \in 1..Len(bets) |->
                        IF i = betIndex
                        THEN [bets[i] EXCEPT !.allocation = newAllocation,
                                             !.potential_payout = RMul(newAllocation, bets[i].payout_multiplier)]
                        ELSE [bets[i] EXCEPT !.allocation = newAlloc(i),
                                             !.potential_payout = RMul(newAlloc(i), bets[i].payout_multiplier)]]),
            !.total_allocated = totalBudget]

\* a multiplier edit that leaves the payout as it was
UpdateMultiplierOnly(bundle, betIndex, value) ==
    [bundle EXCEPT !.bets[betIndex].payout_multiplier = value]

\* handleUpdateBet, field 'multiplier', on one bundle
UpdateMultiplier(bundle, betIndex, value) ==
    LET targetBet == bundle.bets[betIndex]
    IN  [bundle EXCEPT !.bets[betIndex] =
            [targetBet EXCEPT !.payout_multiplier = value,
                              !.potential_payout = RMul(targetBet.allocation, value)]]

\* handleUpdateBet on one bundle
UpdateBet(bundle, betIndex, field, value) ==
    IF field = "allocation" THEN UpdateAllocation(bundle, betIndex, value)
    ELSE UpdateMultiplier(bundle, betIndex, value)

\* an acceptance test that lets a budget of 0 through
BudgetAcceptedNonNegative(bundles, val) ==
    /\ Len(bundles) # 0
    /\ ~IsNaN(parseFloat(val))
    /\ RLe(Zero, parseFloat(val))
    /\ RLt(Zero, OrElse(bundles[1].budget, R(100)))

\* handleUpdateBudget accepts the input val against the bundle list it reads
BudgetAccepted(bundles, val) ==
    /\ Len(bundles) # 0
    /\ ~IsNaN(parseFloat(val))
    /\ RLt(Zero, parseFloat(val))
    /\ RLt(Zero, OrElse(bundles[1].budget, R(100)))

\* a rescaling that leaves out the bets that hold nothing
RescaleBundleDroppingEmpty(bundle, newBudget, scale) ==
    [bundle EXCEPT !.budget = newBudget,
                   !.bets = LET held == SelectSeq(bundle.bets, LAMBDA bet : bet.allocation # Zero)
                            IN  Array([i \in 1..Len(held) |-> ScaleBet(held[i], scale)])]

\* a rescaling that scales the first bet of the bundle only
RescaleBundleFirstBetOnly(bundle, newBudget, scale) ==
    [bundle EXCEPT !.budget = newBudget,
                   !.bets = Array([i \in 1..Len(bundle.bets) |->
                                IF i = 1 THEN ScaleBet(bundle.bets[i], scale) ELSE bundle.bets[i]])]

\* one bundle of handleUpdateBudget's result
RescaleBundle(bundle, newBudget, scale) ==
    [bundle EXCEPT !.budget = newBudget,
                   !.bets = Array([i \in 1..Len(bundle.bets) |-> ScaleBet(bundle.bets[i], scale)])]

\* a budget change that scales every bundle by its own budget
UpdateBudgetPerBundle(bundles, val) ==
    LET newBudget == parseFloat(val)
    IN  Array([i \in 1..Len(bundles) |->
                  RescaleBundle(bundles[i], newBudget,
                                RDiv(newBudget, OrElse(bundles[i].budget, R(100))))])

\* handleUpdateBudget: the bundle list handed to recalculatemetrics (when accepted)
UpdateBudget(bundles, val) ==
    LET newBudget == parseFloat(val)
        oldBudget == OrElse(bundles[1].budget, R(100))
        scale     == RDiv(newBudget, oldBudget)
    IN  Array([i \in 1..Len(bundles) |-> RescaleBundle(bundles[i], newBudget, scale)])

\* a reset that restores the pristine bundle as it is
ResetBundleUnscaled(original, input) == original

\* handleReset: the bundle that replaces the working bundle, from the pristine one
ResetBundle(original, input) ==
    LET intendedBudget == OrElse(parseFloat(input), R(100))
        originalBudget == OrElse(original.budget, R(100))
        scale          == RDiv(intendedBudget, originalBudget)
    IN  IF intendedBudget # originalBudget /\ RLt(Zero, originalBudget)
        THEN RescaleBundle(original, intendedBudget, scale)
        ELSE original

-----------------------------------------------------------------------------
(* Inputs *)

Undefined == <<"undefined">>
IsUndefined(x) == Len(x) = 1

Bet(a, m, p) ==
    [allocation |-> a, potential_payout |-> RMul(a, m), payout_multiplier |-> m,
     current_price |-> p]

Bundle(budget, bets) ==
    [budget |-> budget, bets |-> bets,
     total_allocated |-> SumSeq([i \in 1..Len(bets) |-> bets[i].allocation])]

\* the stored hedge results: the bundles and the total_budget of the precomputed
\* metrics (the other precomputed metrics are only displayed)
Payloads ==
    { [bundles |-> << Bundle(R(100), << Bet(R(60), R(2), Half), Bet(R(40), R(4), Frac(1, 4)),
                                       Bet(R(0), R(5), Frac(1, 5)) >>),
                      Bundle(R(100), << Bet(R(100), R(2), Half) >>) >>,
       total_budget |-> R(100)],
      [bundles |-> << Bundle(R(100), << Bet(R(70), R(2), Half), Bet(R(30), R(4), Frac(1, 4)) >>),
                      Bundle(R(50), << Bet(R(50), R(5), Frac(1, 5)), Bet(R(0), R(2), Half) >>) >>,
       total_budget |-> R(150)],
      [bundles |-> << Bundle(Frac(5, 2), << Bet(Frac(3, 2), R(2), Half), Bet(R(1), R(4), Frac(1, 4)) >>) >>,
       total_budget |-> Frac(5, 2)],
      [bundles |-> << Bundle(R(100), << Bet(R(100), R(2), Half), Bet(R(0), R(4), Frac(1, 4)),
                                       Bet(R(0), R(5), Zero) >>) >>,
       total_budget |-> Undefined],
      \* a bundle without bets and a bundle whose budget is 0
      [bundles |-> << Bundle(R(100), << >>),
                      Bundle(Zero, << Bet(Zero, R(2), Half), Bet(Zero, R(4), Frac(1, 4)) >>) >>,
       total_budget |-> R(100)] }

\* values of the allocation control, of the multiplier and of the budget field
AllocValues == {R(-10), R(20), R(40), R(150)}
MultiplierValues == {R(3)}
BudgetInputs == { <<>>, <<"x">>, <<"0">>, <<"-", "5">>, <<"5", "0">>, <<"2", "0", "0">> }

-----------------------------------------------------------------------------
(* State *)

VARIABLES
    heap,             \* the bet objects, by reference (index)
    originalBundles,  \* useState originalBundles: bundles whose bets are references
    currentBundles,   \* useState currentBundles, as of the last render
    metrics,          \* useState metrics
    budgetInput,      \* useState budgetInput
    pending,          \* bundle lists of recalculatemetrics calls awaiting the import
    nops,             \* number of triggers issued since the load
    last,             \* the last trigger issued
    committed,        \* a recalculatemetrics call has completed since the load
    inForce,          \* the budget of the last accepted budget change (of the load if none)
    serial,           \* the bundle values obtained by applying the triggers one by one
    rBets,            \* argument of a direct call of calculateRiskScore
    rScore,           \* its result
    sMessages,        \* generateHedgeStream: the messages the response body is made of
    body,             \* the part of the response body not read yet
    buffer,           \* let buffer
    delivered,        \* the calls of onEvent, in order
    done              \* reader.read() has returned done

\* the variables of generateHedgeStream
streamVars == <<sMessages, body, buffer, delivered, done>>

vars == <<heap, originalBundles, currentBundles, metrics, budgetInput, pending,
          nops, last, committed, inForce, serial, rBets, rScore, streamVars>>

\* no request is streaming
StreamIdle ==
    /\ sMessages = <<>> /\ body = <<>> /\ buffer = <<>> /\ delivered = <<>> /\ done = FALSE

NullMetrics == [null |-> TRUE]
NoTrigger == [op |-> "none"]

\* a bundle with its bet references replaced by the bet objects
DerefBundle(h, bundle) ==
    [bundle EXCEPT !.bets = Array([j \in 1..Len(bundle.bets) |-> h[bundle.bets[j]]])]
Deref(h, bundles) == Array([i \in 1..Len(bundles) |-> DerefBundle(h, bundles[i])])

RECURSIVE Flatten(_)
Flatten(bundles) ==
    IF bundles = <<>> THEN <<>>
    ELSE Flatten(SubSeq(bundles, 1, Len(bundles) - 1)) \o bundles[Len(bundles)].bets

\* fresh objects for the bets of bundle values: the heap and the bundles of references
NewObjects(h, values) ==
    LET base(i) == Len(h) + Len(Flatten(SubSeq(values, 1, i - 1)))
    IN  [heap |-> h \o Flatten(values),
         bundles |-> Array([i \in 1..Len(values) |->
                        [values[i] EXCEPT !.bets = Array([j \in 1..Len(values[i].bets) |-> base(i) + j])]])]

\* a copy that shares the bet objects with its source
JSONCloneAliased(h, bundles) == [heap |-> h, bundles |-> bundles]

\* JSON.parse(JSON.stringify(bundles)): a deep copy, every bet a fresh object
JSONClone(h, bundles) == NewObjects(h, Deref(h, bundles))

Init ==
    /\ heap = <<>>
    /\ originalBundles = <<>>
    /\ currentBundles = <<>>
    /\ metrics = NullMetrics
    /\ budgetInput = <<>>
    /\ pending = <<>>
    /\ nops = 0
    /\ last = NoTrigger
    /\ committed = FALSE
    /\ inForce = NaN
    /\ serial = <<>>
    /\ rBets = <<>>
    /\ rScore = NaN
    /\ StreamIdle

Loaded == metrics # NullMetrics /\ Len(currentBundles) # 0

\* the budget field after the load: parsed.metrics.total_budget?.toFixed(0) || '100'
InitialBudgetInput(total_budget) ==
    IF IsUndefined(total_budget) THEN <<"1", "0", "0">> ELSE toFixed0(total_budget)

\* useEffect: the stored results are parsed, deep-copied for reset and shown
Load(p) ==
    LET parsed == NewObjects(<<>>, p.bundles)
        copy   == JSONClone(parsed.heap, parsed.bundles)
    IN  /\ ~Loaded
        /\ heap' = copy.heap
        /\ originalBundles' = copy.bundles
        /\ currentBundles' = parsed.bundles
        /\ metrics' = [calculatePortfolioMetrics(p.bundles) EXCEPT !.total_budget = p.total_budget]
        /\ budgetInput' = InitialBudgetInput(p.total_budget)
        /\ serial' = p.bundles
        /\ inForce' = p.bundles[1].budget
        /\ UNCHANGED <<pending, nops, last, committed, rBets, rScore, streamVars>>

\* a handler may be called: the bounds of the model leave room for it
CanCall == nops < MaxOps /\ Len(pending) < MaxPending

\* the controls of the bets and the reset buttons exist once the results are shown
CanIssue == Loaded /\ CanCall

BetIndexes(bundle) == IF Len(bundle.bets) = 0 THEN {1} ELSE 1..Len(bundle.bets)

\* handleUpdateBet: the bet objects of the bundle are written in place, the
\* copied bundle list goes to recalculatemetrics
HandleUpdateBet(bundleIndex, betIndex, field, value) ==
    LET bundle  == currentBundles[bundleIndex]
        result  == UpdateBet(DerefBundle(heap, bundle), betIndex, field, value)
        updatedBundles == [currentBundles EXCEPT ![bundleIndex] =
                              [bundle EXCEPT !.total_allocated = result.total_allocated]]
    IN  /\ CanIssue
        /\ field = "multiplier" => betIndex <= Len(bundle.bets)
        /\ heap' = Array([id \in 1..Len(heap) |->
                      IF \E k \in 1..Len(bundle.bets) : bundle.bets[k] = id
                      THEN result.bets[CHOOSE k \in 1..Len(bundle.bets) : bundle.bets[k] = id]
                      ELSE heap[id]])
        /\ pending' = Append(pending, updatedBundles)
        /\ nops' = nops + 1
        /\ last' = [op |-> field, bundle |-> bundleIndex, bet |-> betIndex, value |-> value]
        /\ serial' = [serial EXCEPT ![bundleIndex] = UpdateBet(@, betIndex, field, value)]
        /\ UNCHANGED <<originalBundles, currentBundles, metrics, budgetInput, committed, inForce,
                       rBets, rScore, streamVars>>

\* handleUpdateBudget: the field is stored; an accepted value rescales every
\* bundle.  The handler guards against an empty bundle list itself, so it is
\* also called before the results are loaded.
HandleUpdateBudget(val) ==
    LET accepted == BudgetAccepted(Deref(heap, currentBundles), val)
        updated  == NewObjects(heap, UpdateBudget(Deref(heap, currentBundles), val))
    IN  /\ CanCall
        /\ budgetInput' = val
        /\ IF accepted
           THEN /\ heap' = updated.heap
                /\ pending' = Append(pending, updated.bundles)
           ELSE UNCHANGED <<heap, pending>>
        /\ nops' = nops + 1
        /\ last' = [op |-> "budget", val |-> val, accepted |-> accepted]
        /\ serial' = IF BudgetAccepted(serial, val) THEN UpdateBudget(serial, val) ELSE serial
        /\ inForce' = IF accepted THEN parseFloat(val) ELSE inForce
        /\ UNCHANGED <<originalBundles, currentBundles, metrics, committed, rBets, rScore, streamVars>>

\* handleReset restoring every bundle of the list instead of the one addressed
HandleResetEveryBundle(bundleIndex) ==
    LET copy     == JSONClone(heap, originalBundles)
        restored == NewObjects(heap, Array([k \in 1..Len(originalBundles) |->
                        ResetBundle(Deref(copy.heap, copy.bundles)[k], budgetInput)]))
    IN  /\ CanIssue
        /\ Len(originalBundles) # 0
        /\ heap' = restored.heap
        /\ pending' = Append(pending, restored.bundles)
        /\ nops' = nops + 1
        /\ last' = [op |-> "reset", bundle |-> bundleIndex]
        /\ serial' = [serial EXCEPT ![bundleIndex] =
                         ResetBundle(DerefBundle(heap, originalBundles[bundleIndex]), budgetInput)]
        /\ UNCHANGED <<originalBundles, currentBundles, metrics, budgetInput, committed, inForce,
                       rBets, rScore, streamVars>>

\* handleReset: the pristine bundle is deep-copied into the list, rescaled to the
\* budget the field holds
HandleReset(bundleIndex) ==
    LET copy     == JSONClone(heap, <<originalBundles[bundleIndex]>>)
        restored == NewObjects(heap, <<ResetBundle(Deref(copy.heap, copy.bundles)[1], budgetInput)>>)
        updatedBundles == [currentBundles EXCEPT ![bundleIndex] = restored.bundles[1]]
    IN  /\ CanIssue
        /\ Len(originalBundles) # 0
        /\ heap' = restored.heap
        /\ pending' = Append(pending, updatedBundles)
        /\ nops' = nops + 1
        /\ last' = [op |-> "reset", bundle |-> bundleIndex]
        /\ serial' = [serial EXCEPT ![bundleIndex] =
                         ResetBundle(DerefBundle(heap, originalBundles[bundleIndex]), budgetInput)]
        /\ UNCHANGED <<originalBundles, currentBundles, metrics, budgetInput, committed, inForce,
                       rBets, rScore, streamVars>>

\* recalculatemetrics after its await: the metrics are computed from the bundle
\* list it was given and both are committed
Commit ==
    /\ pending # <<>>
    /\ metrics' = calculatePortfolioMetrics(Deref(heap, Head(pending)))
    /\ currentBundles' = Head(pending)
    /\ pending' = Tail(pending)
    /\ committed' = TRUE
    /\ UNCHANGED <<heap, originalBundles, budgetInput, nops, last, inForce, serial, rBets, rScore,
                   streamVars>>

Next ==
    \/ \E p \in Payloads : Load(p)
    \/ \E i \in 1..Len(currentBundles) : \E j \in BetIndexes(currentBundles[i]) :
           \E v \in AllocValues : HandleUpdateBet(i, j, "allocation", v)
    \/ \E i \in 1..Len(currentBundles) : \E j \in BetIndexes(currentBundles[i]) :
           \E v \in MultiplierValues : HandleUpdateBet(i, j, "multiplier", v)
    \/ \E val \in BudgetInputs : HandleUpdateBudget(val)
    \/ \E i \in 1..Len(currentBundles) : HandleReset(i)
    \/ Commit

Spec == Init /\ [][Next]_vars

-----------------------------------------------------------------------------
(* Direct calls of calculateRiskScore on bounded bet lists *)

RiskPrices == {Zero, Frac(1, 4), Half, R(1)}
RiskAllocations == {Zero, R(1), R(3), R(-1)}
RiskBets == {Bet(a, R(2), p) : a \in RiskAllocations, p \in RiskPrices}
RiskBetLists == UNION {[1..n -> RiskBets] : n \in 0..MaxRiskBets}

RiskInit ==
    /\ heap = <<>>
    /\ originalBundles = <<>>
    /\ currentBundles = <<>>
    /\ metrics = NullMetrics
    /\ budgetInput = <<>>
    /\ pending = <<>>
    /\ nops = 0
    /\ last = NoTrigger
    /\ committed = FALSE
    /\ inForce = NaN
    /\ serial = <<>>
    /\ rBets \in RiskBetLists
    /\ rScore = NaN
    /\ StreamIdle

CallRiskScore ==
    /\ IsNaN(rScore)
    /\ rScore' = calculateRiskScore(rBets)
    /\ UNCHANGED <<heap, originalBundles, currentBundles, metrics, budgetInput, pending,
                   nops, last, committed, inForce, serial, rBets, streamVars>>

RiskNext == CallRiskScore

SpecRisk == RiskInit /\ [][RiskNext]_vars

-----------------------------------------------------------------------------
(* Direct calls of calculatePortfolioMetrics on bounded bundle lists *)

MetricBets == {Bet(Zero, R(2), Half), Bet(R(50), R(4), Frac(1, 4))}
MetricBetLists == UNION {[1..n -> MetricBets] : n \in 0..MaxRiskBets}
MetricBundles ==
    {Bundle(R(100), Array(bl)) : bl \in MetricBetLists}
        \cup {Bundle(Zero, <<>>), Bundle(Zero, <<Bet(Zero, R(2), Half)>>)}
MetricBundleLists == UNION {[1..n -> MetricBundles] : n \in 0..MaxMetricBundles}

MetricsInit ==
    /\ \E values \in MetricBundleLists :
          /\ heap = NewObjects(<<>>, Array(values)).heap
          /\ currentBundles = NewObjects(<<>>, Array(values)).bundles
    /\ originalBundles = <<>>
    /\ metrics = NullMetrics
    /\ budgetInput = <<>>
    /\ pending = <<>>
    /\ nops = 0
    /\ last = NoTrigger
    /\ committed = FALSE
    /\ inForce = NaN
    /\ serial = <<>>
    /\ rBets = <<>>
    /\ rScore = NaN
    /\ StreamIdle

CallPortfolioMetrics ==
    /\ metrics = NullMetrics
    /\ metrics' = calculatePortfolioMetrics(Deref(heap, currentBundles))
    /\ UNCHANGED <<heap, originalBundles, currentBundles, budgetInput, pending,
                   nops, last, committed, inForce, serial, rBets, rScore, streamVars>>

MetricsNext == CallPortfolioMetrics

SpecMetrics == MetricsInit /\ [][MetricsNext]_vars

-----------------------------------------------------------------------------
(* Allocation edits of a loaded portfolio, with the values the bets had among
   the values the slider is moved to *)

RoundTripPayloads ==
    { [bundles |-> <<Bundle(R(100), <<Bet(R(60), R(2), Half), Bet(R(40), R(4), Frac(1, 4)),
                                      Bet(Zero, R(5), Frac(1, 5))>>)>>,
       total_budget |-> R(100)],
      [bundles |-> <<Bundle(R(100), <<Bet(R(100), R(2), Half), Bet(Zero, R(4), Frac(1, 4))>>)>>,
       total_budget |-> R(100)] }
RoundTripValues == {R(-10), Zero, R(20), R(40), R(60), R(100)}

\* the state of the page once the stored results of one of the payloads are loaded
LoadedInit(payloads) ==
    /\ \E p \in payloads :
          LET parsed == NewObjects(<<>>, p.bundles)
              copy   == JSONClone(parsed.heap, parsed.bundles)
          IN  /\ heap = copy.heap
              /\ originalBundles = copy.bundles
              /\ currentBundles = parsed.bundles
              /\ metrics = [calculatePortfolioMetrics(p.bundles) EXCEPT !.total_budget = p.total_budget]
              /\ budgetInput = InitialBudgetInput(p.total_budget)
              /\ serial = p.bundles
              /\ inForce = p.bundles[1].budget
    /\ pending = <<>>
    /\ nops = 0
    /\ last = NoTrigger
    /\ committed = FALSE
    /\ rBets = <<>>
    /\ rScore = NaN
    /\ StreamIdle

RoundTripInit == LoadedInit(RoundTripPayloads)

RoundTripNext ==
    \/ \E i \in 1..Len(currentBundles) : \E j \in BetIndexes(currentBundles[i]) :
           \E v \in RoundTripValues : HandleUpdateBet(i, j, "allocation", v)
    \/ Commit

SpecRoundTrip == RoundTripInit /\ [][RoundTripNext]_vars

-----------------------------------------------------------------------------
(* Budget inputs on a loaded portfolio whose risk scores lie below the clamp of
   the scaled standard deviation, so that they depend on the weights *)

RescalePayloads ==
    { [bundles |-> <<Bundle(R(100), <<Bet(R(90), R(2), Frac(1, 20)), Bet(R(10), R(4), Frac(1, 20))>>)>>,
       total_budget |-> R(100)],
      [bundles |-> <<Bundle(R(100), <<Bet(R(50), R(2), Frac(1, 20)), Bet(R(50), R(4), Frac(1, 20))>>),
                     Bundle(R(40), <<Bet(R(30), R(2), Frac(1, 10)), Bet(R(10), R(5), Frac(1, 10))>>)>>,
       total_budget |-> R(100)],
      [bundles |-> <<Bundle(R(10), <<Bet(R(4), R(2), Frac(1, 20)), Bet(R(4), R(4), Frac(1, 10)),
                                     Bet(R(2), R(5), Frac(1, 20))>>)>>,
       total_budget |-> R(10)] }

RescaleInit == LoadedInit(RescalePayloads)

RescaleNext ==
    \/ \E val \in BudgetInputs : HandleUpdateBudget(val)
    \/ Commit

SpecRescale == RescaleInit /\ [][RescaleNext]_vars

-----------------------------------------------------------------------------
(* generateHedgeStream: the response body is read chunk by chunk, split into
   blocks at blank lines, and every block with an event line and a data line is
   handed to onEvent *)

CR == "\r"
LF == "\n"
EventPrefix == <<"e", "v", "e", "n", "t", ":", " ">>
DataPrefix == <<"d", "a", "t", "a", ":", " ">>

\* the text of one line end in the style of the stream
LineEnd(nl) == IF nl = "crlf" THEN <<CR, LF>> ELSE <<LF>>

\* the text of one SSE message as the server writes it: an event block (event
\* line, data line with the JSON text of a number) or a comment block
MessageText(m) ==
    (IF m.kind = "event"
     THEN EventPrefix \o m.type \o LineEnd(m.nl) \o DataPrefix \o NatDigits(m.value)
     ELSE <<":", "p">>)
        \o (IF m.terminated THEN LineEnd(m.nl) \o LineEnd(m.nl) ELSE <<>>)

RECURSIVE StreamText(_)
StreamText(ms) == IF ms = <<>> THEN <<>> ELSE MessageText(Head(ms)) \o StreamText(Tail(ms))

\* s has the characters of pat at position i
MatchesAt(s, i, pat) ==
    /\ i + Len(pat) - 1 <= Len(s)
    /\ \A k \in 1..Len(pat) : s[i + k - 1] = pat[k]

\* buffer.split(/\r\n\r\n|\n\n/): the pieces between the leftmost matches
RECURSIVE SplitFrom(_, _, _)
SplitFrom(s, i, start) ==
    IF i > Len(s) THEN <<SubSeq(s, start, Len(s))>>
    ELSE IF MatchesAt(s, i, <<CR, LF, CR, LF>>)
         THEN <<SubSeq(s, start, i - 1)>> \o SplitFrom(s, i + 4, i + 4)
         ELSE IF MatchesAt(s, i, <<LF, LF>>)
              THEN <<SubSeq(s, start, i - 1)>> \o SplitFrom(s, i + 2, i + 2)
              ELSE SplitFrom(s, i + 1, start)
SplitBlocks(s) == SplitFrom(s, 1, 1)

\* !line.trim(): the text holds white space only
IsBlank(s) == \A k \in 1..Len(s) : s[k] \in {" ", CR, LF}

\* the lines of a block: multiline ^ and $ match at \r and at \n
RECURSIVE LinesFrom(_, _, _)
LinesFrom(s, i, start) ==
    IF i > Len(s) THEN <<SubSeq(s, start, Len(s))>>
    ELSE IF s[i] \in {CR, LF}
         THEN <<SubSeq(s, start, i - 1)>> \o LinesFrom(s, i + 1, i + 1)
         ELSE LinesFrom(s, i + 1, start)

\* line.match(/^prefix(.+)$/m): the captures of the lines that match, the first
\* one being match[1]; the empty sequence stands for null
Captures(block, prefix) ==
    LET lines   == LinesFrom(block, 1, 1)
        matches == SelectSeq(lines, LAMBDA l : Len(l) > Len(prefix) /\ MatchesAt(l, 1, prefix))
    IN  Array([k \in 1..Len(matches) |-> SubSeq(matches[k], Len(prefix) + 1, Len(matches[k]))])

\* the calls of onEvent made by the loop over the blocks
RECURSIVE Events(_)
Events(blocks) ==
    IF blocks = <<>> THEN <<>>
    ELSE LET line       == Head(blocks)
             eventMatch == Captures(line, EventPrefix)
             dataMatch  == Captures(line, DataPrefix)
         IN  (IF ~IsBlank(line) /\ eventMatch # <<>> /\ dataMatch # <<>>
              THEN <<[type |-> eventMatch[1], data |-> DigitsVal(dataMatch[1])]>>
              ELSE <<>>) \o Events(Tail(blocks))

\* a reading loop that keeps nothing of the last piece
PopNothing(lines) == <<>>

\* lines.pop() || '': the last piece stays in the buffer
PopLast(lines) == lines[Len(lines)]

MessageKinds ==
    { [kind |-> "event", type |-> <<"a">>, value |-> 1],
      [kind |-> "event", type |-> <<"b", "c">>, value |-> 23],
      [kind |-> "comment", type |-> <<>>, value |-> 0] }

\* the streams: up to MaxMessages messages in one line-end style, the last one
\* with or without its blank line
StreamMessages ==
    UNION { { Array([i \in 1..n |->
                 [kind |-> f[i].kind, type |-> f[i].type, value |-> f[i].value,
                  nl |-> nl, terminated |-> (i < n \/ term)]]) :
              f \in [1..n -> MessageKinds], nl \in {"lf", "crlf"}, term \in BOOLEAN } :
            n \in 0..MaxMessages }

StreamInit ==
    /\ heap = <<>>
    /\ originalBundles = <<>>
    /\ currentBundles = <<>>
    /\ metrics = NullMetrics
    /\ budgetInput = <<>>
    /\ pending = <<>>
    /\ nops = 0
    /\ last = NoTrigger
    /\ committed = FALSE
    /\ inForce = NaN
    /\ serial = <<>>
    /\ rBets = <<>>
    /\ rScore = NaN
    /\ sMessages \in StreamMessages
    /\ body = StreamText(sMessages)
    /\ buffer = <<>>
    /\ delivered = <<>>
    /\ done = FALSE

\* reader.read() returns the next n characters of the body
ReadChunk(n) ==
    LET lines == SplitBlocks(buffer \o SubSeq(body, 1, n))
    IN  /\ ~done
        /\ n \in 1..Len(body)
        /\ body' = SubSeq(body, n + 1, Len(body))
        /\ buffer' = PopLast(lines)
        /\ delivered' = delivered \o Events(SubSeq(lines, 1, Len(lines) - 1))
        /\ UNCHANGED <<heap, originalBundles, currentBundles, metrics, budgetInput, pending,
                       nops, last, committed, inForce, serial, rBets, rScore, sMessages, done>>

\* reader.read() returns done: what the buffer still holds is processed
ReadDone ==
    /\ ~done
    /\ body = <<>>
    /\ done' = TRUE
    /\ delivered' = delivered \o (IF IsBlank(buffer) THEN <<>> ELSE Events(SplitBlocks(buffer)))
    /\ UNCHANGED <<heap, originalBundles, currentBundles, metrics, budgetInput, pending,
                   nops, last, committed, inForce, serial, rBets, rScore, sMessages, body, buffer>>

StreamNext ==
    \/ \E n \in 1..Len(body) : ReadChunk(n)
    \/ ReadDone

SpecStream == StreamInit /\ [][StreamNext]_vars

-----------------------------------------------------------------------------
(* Properties *)

\* the bundle list the last issued trigger produced (or the committed one)
Latest == IF pending # <<>> THEN pending[Len(pending)] ELSE currentBundles

SumAllocations(bundle) == SumSeq([j \in 1..Len(bundle.bets) |-> bundle.bets[j].allocation])

\* every bundle list that is committed or awaiting its commit
BundleLists == {currentBundles} \cup {pending[k] : k \in 1..Len(pending)}

Settled == Loaded /\ nops > 0 /\ pending = <<>>

\* C1: after an allocation edit of a bundle with at least one bet, the bundle's
\* allocations sum to the bundle's budget.
C1_SumEqualsBudgetAfterEdit ==
    last.op = "allocation" =>
        LET b == DerefBundle(heap, Latest[last.bundle])
        IN  Len(b.bets) >= 1 => SumAllocations(b) = b.budget

\* C2: after every trigger every bet of the working portfolio (committed or
\* awaiting its commit) has potential_payout = allocation * payout_multiplier.
C2_PayoutConsistent ==
    nops > 0 =>
        \A bundles \in BundleLists : \A i \in 1..Len(bundles) :
            \A j \in 1..Len(bundles[i].bets) :
                LET bet == heap[bundles[i].bets[j]]
                IN  bet.potential_payout = RMul(bet.allocation, bet.payout_multiplier)

\* C2 witness: a multiplier edit followed by an accepted budget change that
\* rescales, both committed.
C2_Witness ==
    /\ Settled
    /\ last.op = "budget" /\ last.accepted
    /\ \E i \in 1..Len(currentBundles) : \E j \in 1..Len(currentBundles[i].bets) :
          /\ heap[currentBundles[i].bets[j]].payout_multiplier = R(3)
          /\ heap[currentBundles[i].bets[j]].allocation = R(120)

PristineSumsToBudget ==
    \A i \in 1..Len(originalBundles) :
        LET b == DerefBundle(heap, originalBundles[i]) IN SumAllocations(b) = b.budget

\* C3: given a loaded portfolio whose bundles each sum to their budget, after an
\* accepted budget change every bundle, and after a reset the reset bundle, has
\* its allocations summing to its budget.
C3_SumEqualsBudgetAfterBudgetOrReset ==
    PristineSumsToBudget =>
        /\ (last.op = "budget" /\ last.accepted) =>
              \A i \in 1..Len(Latest) :
                  LET b == DerefBundle(heap, Latest[i]) IN SumAllocations(b) = b.budget
        /\ last.op = "reset" =>
              LET b == DerefBundle(heap, Latest[last.bundle]) IN SumAllocations(b) = b.budget

\* C4: whenever no re-aggregation is awaiting its commit, the working portfolio
\* is the one obtained by applying the issued triggers one after another.
C4_TriggersSerialized ==
    (Loaded /\ pending = <<>>) => Deref(heap, currentBundles) = serial

\* C5: a reset issued as the first trigger after the load leaves the bundle
\* equal to its pristine form.
C5_ResetAfterLoadIsIdentity ==
    (nops = 1 /\ last.op = "reset") =>
        DerefBundle(heap, Latest[last.bundle]) = DerefBundle(heap, originalBundles[last.bundle])

\* C6: an accepted budget change leaves allocation / budget of every bet of
\* every bundle as it was in the bundles the handler read.
C6_BudgetChangeKeepsPercentages ==
    [][(nops' = nops + 1 /\ last'.op = "budget" /\ last'.accepted) =>
          LET before == Deref(heap, currentBundles)
              after  == Deref(heap', Latest')
          IN  \A i \in 1..Len(before) : \A j \in 1..Len(before[i].bets) :
                  RMul(after[i].bets[j].allocation, before[i].budget)
                      = RMul(before[i].bets[j].allocation, after[i].budget)]_vars

C8_TotalAllocatedInSync ==
    Settled =>
        /\ \A i \in 1..Len(currentBundles) :
              LET b == DerefBundle(heap, currentBundles[i])
              IN  b.total_allocated = SumAllocations(b)
        /\ metrics.total_allocated =
              SumSeq([i \in 1..Len(metrics.bundle_metrics) |->
                         metrics.bundle_metrics[i].total_allocation])

\* C9: once a trigger has completed, the overall risk score is the mean of the
\* bundle risk scores weighted by the bundles' total allocations, is at most the
\* largest bundle risk score, lies in [0, 100] and is 0 when nothing is allocated.
C9_OverallRiskIsWeightedMean ==
    Settled =>
        LET bm    == metrics.bundle_metrics
            risks == Array([i \in 1..Len(bm) |-> bm[i].risk_score])
            grand == SumSeq([i \in 1..Len(bm) |-> bm[i].total_allocation])
        IN  /\ RLt(Zero, grand) =>
                  RMul(metrics.overall_risk_score, grand)
                      = SumSeq([i \in 1..Len(bm) |-> RMul(risks[i], bm[i].total_allocation)])
            /\ RLe(Zero, metrics.overall_risk_score)
            /\ RLe(metrics.overall_risk_score, R(100))
            /\ RLe(metrics.overall_risk_score, MaxSeq(risks))
            /\ metrics.total_allocated = Zero => metrics.overall_risk_score = Zero

\* C10: the risk score of a bet list with prices in [0, 1] and non-negative
\* allocations lies in [0, 100].
C10_RiskScoreBounds ==
    ~IsNaN(rScore) => RLe(Zero, rScore) /\ RLe(rScore, R(100))

\* C10 witness: a two-bet list whose scaled standard deviation reaches the clamp.
C10_Witness ==
    /\ ~IsNaN(rScore)
    /\ Len(rBets) = 2
    /\ rBets[1].allocation = R(3) /\ rBets[2].allocation = Zero
    /\ rBets[1].current_price = Half /\ rBets[2].current_price = Half
    /\ rScore = R(100)

\* the text of the budget field does not denote a positive number
NotPositiveNumber(val) == IsNaN(parseFloat(val)) \/ RLe(parseFloat(val), Zero)

\* C11: a budget change whose value is not a positive number, or that is issued
\* while no bundles are loaded, changes no bundle (budget, allocations, payouts,
\* total_allocated), starts no re-aggregation and does not replace the metrics.
C11_RejectedBudgetIsNoOp ==
    [][(nops' = nops + 1 /\ last'.op = "budget"
           /\ (NotPositiveNumber(last'.val) \/ Len(currentBundles) = 0))
       => /\ heap' = heap
          /\ currentBundles' = currentBundles
          /\ pending' = pending
          /\ metrics' = metrics]_vars

\* C11 witness: after a committed allocation edit the budget field was set to
\* "-5"; nothing is awaiting a commit and the edited bundle is still shown.
C11_Witness ==
    /\ Loaded /\ nops = 2 /\ pending = <<>>
    /\ last.op = "budget" /\ last.val = <<"-", "5">> /\ budgetInput = <<"-", "5">>
    /\ Len(currentBundles[1].bets) = 3
    /\ heap[currentBundles[1].bets[1]].allocation = R(48)

\* the budget the user currently intends: the number the budget field holds
\* (100 when it holds none)
IntendedBudget == OrElse(parseFloat(budgetInput), R(100))

\* C12: after a reset of bundle i, when the intended budget B' differs from the
\* pristine budget B0 > 0, the restored bundle has budget B', the pristine bets
\* in their order with their multipliers, and every allocation and payout is the
\* pristine value times B' / B0.
C12_ResetScalesPristine ==
    last.op = "reset" =>
        LET orig == DerefBundle(heap, originalBundles[last.bundle])
            b    == DerefBundle(heap, Latest[last.bundle])
            factor == RDiv(IntendedBudget, orig.budget)
        IN  (RLt(Zero, orig.budget) /\ IntendedBudget # orig.budget) =>
                /\ b.budget = IntendedBudget
                /\ Len(b.bets) = Len(orig.bets)
                /\ \A j \in 1..Len(orig.bets) :
                      /\ b.bets[j].payout_multiplier = orig.bets[j].payout_multiplier
                      /\ b.bets[j].current_price = orig.bets[j].current_price
                      /\ b.bets[j].allocation = RMul(orig.bets[j].allocation, factor)
                      /\ b.bets[j].potential_payout = RMul(orig.bets[j].potential_payout, factor)

\* C12 witness: the bundle of budget 2.5 was edited to [2.5, 0] in place, then
\* reset while the field holds "3": the working bundle is [1.8, 1.2] at budget 3.
C12_Witness ==
    /\ Settled /\ nops = 2 /\ last.op = "reset" /\ last.bundle = 1
    /\ budgetInput = <<"3">>
    /\ DerefBundle(heap, originalBundles[1]).budget = Frac(5, 2)
    /\ heap[1].allocation = Frac(5, 2) /\ heap[2].allocation = Zero
    /\ currentBundles[1].budget = R(3)
    /\ [j \in 1..2 |-> heap[currentBundles[1].bets[j]].allocation] = <<Frac(9, 5), Frac(6, 5)>>

\* C13: a reset of a bundle whose pristine budget is 0, or equals the intended
\* budget, makes the working bundle an exact copy of the pristine bundle, budget
\* included.
C13_ResetWithoutScalingIsCopy ==
    last.op = "reset" =>
        LET orig == DerefBundle(heap, originalBundles[last.bundle])
            b    == DerefBundle(heap, Latest[last.bundle])
        IN  (orig.budget = Zero \/ orig.budget = IntendedBudget) => b = orig

\* C14: an allocation edit addressed to a bundle without bets leaves the working
\* portfolio, that bundle's total_allocated included, as the handler read it.
C14_EditOfEmptyBundleIsNoOp ==
    [][(nops' = nops + 1 /\ last'.op = "allocation"
           /\ Len(currentBundles[last'.bundle].bets) = 0)
       => Deref(heap', Latest') = Deref(heap, currentBundles)]_vars

\* the payout multiplier and the price of every bet of a bundle, in order
BetIdentities(bundle) ==
    Array([j \in 1..Len(bundle.bets) |->
              <<bundle.bets[j].payout_multiplier, bundle.bets[j].current_price>>])

\* C15: an allocation edit or an accepted budget change changes the payout
\* multiplier of no bet object, and the bundle list it produces has, in every
\* bundle, the bets the handler read, in the same order.
C15_EditsKeepMultipliersAndBets ==
    [][(nops' = nops + 1 /\ Len(pending') = Len(pending) + 1
           /\ last'.op \in {"allocation", "budget"})
       => /\ \A id \in 1..Len(heap) :
                heap'[id].payout_multiplier = heap[id].payout_multiplier
          /\ Len(Latest') = Len(currentBundles)
          /\ \A i \in 1..Len(currentBundles) :
                /\ BetIdentities(DerefBundle(heap', Latest'[i]))
                      = BetIdentities(DerefBundle(heap, currentBundles[i]))
                /\ last'.op = "allocation" => Latest'[i].bets = currentBundles[i].bets]_vars

\* C15 witness: the bundle [60, 40, 0] with multipliers 2, 4, 5 was edited to
\* [48, 32, 20] and then rescaled to budget 50: [24, 16, 10], multipliers as before.
C15_Witness ==
    /\ Settled /\ nops = 2 /\ last.op = "budget" /\ last.accepted
    /\ Len(currentBundles[1].bets) = 3
    /\ [j \in 1..3 |-> heap[currentBundles[1].bets[j]].allocation] = <<R(24), R(16), R(10)>>
    /\ [j \in 1..3 |-> heap[currentBundles[1].bets[j]].payout_multiplier] = <<R(2), R(4), R(5)>>

\* the sum of the allocations of the bets of a bundle other than bet t
SumOthers(bundle, t) ==
    SumSeq([k \in 1..Len(bundle.bets) |-> IF k = t THEN Zero ELSE bundle.bets[k].allocation])

\* an allocation edit of a bundle with bets is the step taken
AllocationEditStep ==
    /\ nops' = nops + 1 /\ last'.op = "allocation"
    /\ Len(currentBundles[last'.bundle].bets) > 0

\* C16: in an allocation edit where the other bets' allocations sum to more than
\* 0, every other bet's new allocation is remainder * (old allocation / sum of the
\* others' old allocations), remainder = budget - the value clamped into [0, budget].
C16_ProportionalRedistribution ==
    [][AllocationEditStep =>
          LET before == DerefBundle(heap, currentBundles[last'.bundle])
              after  == DerefBundle(heap', Latest'[last'.bundle])
              t      == last'.bet
              remainder == RSub(before.budget, Clamp(last'.value, before.budget))
          IN  RLt(Zero, SumOthers(before, t)) =>
                  \A k \in 1..Len(before.bets) : k # t =>
                      after.bets[k].allocation =
                          RMul(remainder, RDiv(before.bets[k].allocation, SumOthers(before, t)))]_vars

\* C17: in an allocation edit where every other bet's allocation is 0, every
\* other bet receives remainder / (number of other bets), remainder = budget -
\* the value clamped into [0, budget].
C17_EqualSplitWhenOthersAreZero ==
    [][AllocationEditStep =>
          LET before == DerefBundle(heap, currentBundles[last'.bundle])
              after  == DerefBundle(heap', Latest'[last'.bundle])
              t      == last'.bet
              n      == Len(before.bets)
              remainder == RSub(before.budget, Clamp(last'.value, before.budget))
          IN  (n > 1 /\ \A k \in 1..n : k # t => before.bets[k].allocation = Zero) =>
                  \A k \in 1..n : k # t =>
                      after.bets[k].allocation = RDiv(remainder, R(n - 1))]_vars

SinglePositionAtHalf ==
    /\ ~IsNaN(rScore) /\ Len(rBets) = 1
    /\ rBets[1].current_price = Half /\ RLt(Zero, rBets[1].allocation)

\* risk_a of a single position at price 0.5: weight 1, variance 0.25
SinglePositionRiskA == ScaledStdDev(MathSqrt(RMul(Half, RSub(R(1), Half))))

\* C19 (as stated): for a single bet priced at 0.5 the individual-risk component
\* is 0, so the score equals 0.7 * risk_a.
C19_SinglePositionScoreAsStated ==
    SinglePositionAtHalf => rScore = RMul(Frac(7, 10), SinglePositionRiskA)

\* C19 (amended): for a single bet priced at 0.5 the individual-risk component
\* is 100 (avg_dist = 0), so the score equals 0.7 * risk_a + 0.3 * 100, which is 100.
C19_SinglePositionScore ==
    SinglePositionAtHalf =>
        /\ rScore = RAdd(RMul(Frac(7, 10), SinglePositionRiskA), RMul(Frac(3, 10), R(100)))
        /\ rScore = R(100)

\* C19 witness: the score of one bet of allocation 3 priced at 0.5 is 100.
C19_Witness ==
    /\ Len(rBets) = 1 /\ rBets[1].current_price = Half /\ rBets[1].allocation = R(3)
    /\ rScore = R(100)

\* C20: after an allocation edit the target bet's allocation is the requested
\* value clamped into [0, bundle.budget]: never negative, never above the
\* bundle's budget, for every budget including 0.
C20_TargetClampedIntoBudget ==
    [][AllocationEditStep =>
          LET before == DerefBundle(heap, currentBundles[last'.bundle])
              after  == DerefBundle(heap', Latest'[last'.bundle])
              target == after.bets[last'.bet].allocation
          IN  /\ target = MathMin(MathMax(last'.value, Zero), before.budget)
              /\ RLe(Zero, target)
              /\ RLe(target, before.budget)]_vars

\* C21: a multiplier edit writes the new multiplier and allocation * multiplier
\* as payout into the target bet; every other field of it, every other bet
\* object and every bundle of the list (budget, total_allocated, bets) are as
\* the handler read them.
C21_MultiplierEditFrame ==
    [][(nops' = nops + 1 /\ last'.op = "multiplier") =>
          LET target == currentBundles[last'.bundle].bets[last'.bet]
          IN  /\ heap'[target] =
                    [heap[target] EXCEPT
                        !.payout_multiplier = last'.value,
                        !.potential_payout = RMul(heap[target].allocation, last'.value)]
              /\ Len(heap') = Len(heap)
              /\ \A id \in 1..Len(heap) : id # target => heap'[id] = heap[id]
              /\ Latest' = currentBundles]_vars

\* C21 witness: the bet of allocation 60 had its multiplier set from 2 to 3; its
\* payout is 180 and the bundle still holds [60, 40, 0] at budget 100.
C21_Witness ==
    /\ Settled /\ nops = 1 /\ last.op = "multiplier" /\ last.bundle = 1 /\ last.bet = 1
    /\ Len(currentBundles[1].bets) = 3
    /\ heap[currentBundles[1].bets[1]].payout_multiplier = R(3)
    /\ heap[currentBundles[1].bets[1]].potential_payout = R(180)
    /\ [j \in 1..3 |-> heap[currentBundles[1].bets[j]].allocation] = <<R(60), R(40), R(0)>>
    /\ currentBundles[1].budget = R(100) /\ currentBundles[1].total_allocated = R(100)

\* C22: from the first completed re-aggregation on, the displayed metrics are
\* calculatePortfolioMetrics of the working bundle list as it stands (its bet
\* objects included).
C22_MetricsDescribeWorkingBundles ==
    committed => metrics = calculatePortfolioMetrics(Deref(heap, currentBundles))


\* the numbers of a bundle's metrics record and of the portfolio's
BundleNumbers(m) ==
    {m.total_allocation, m.avg_payout_multiplier, m.max_payout, m.min_payout,
     m.total_max_payout, m.risk_score}
PortfolioNumbers(m) ==
    {m.total_budget, m.total_allocated, m.overall_risk_score, m.total_max_payout}

\* C23: the metrics of degenerate input are numbers and neutral: a bundle
\* without bets has totals, payouts and risk 0 and average multiplier 1, a bundle
\* whose allocations sum to 0 has average multiplier 1, an empty bundle list has
\* total_budget 0 and overall risk 0, and a list with total allocated 0 has
\* overall risk 0.
C23_DegenerateMetricsAreNeutral ==
    metrics # NullMetrics =>
        /\ \A x \in PortfolioNumbers(metrics) : ~IsNaN(x)
        /\ Len(metrics.bundle_metrics) = Len(currentBundles)
        /\ \A i \in 1..Len(currentBundles) :
              LET m == metrics.bundle_metrics[i]
              IN  /\ \A x \in BundleNumbers(m) : ~IsNaN(x)
                  /\ Len(currentBundles[i].bets) = 0 =>
                        /\ m.num_markets = 0
                        /\ BundleNumbers(m) = {Zero, R(1)}
                        /\ m.avg_payout_multiplier = R(1)
                  /\ SumAllocations(DerefBundle(heap, currentBundles[i])) = Zero =>
                        m.avg_payout_multiplier = R(1)
        /\ Len(currentBundles) = 0 =>
              /\ metrics.total_budget = Zero
              /\ metrics.overall_risk_score = Zero
              /\ metrics.num_bundles = 0
        /\ SumSeq([i \in 1..Len(currentBundles) |-> currentBundles[i].total_allocated]) = Zero =>
              metrics.overall_risk_score = Zero

\* C23 witness: the metrics of a list of a bundle without bets and a bundle of
\* two bets without allocation were computed.
C23_Witness ==
    /\ metrics # NullMetrics
    /\ Len(currentBundles) = 2
    /\ Len(currentBundles[1].bets) = 0
    /\ Len(currentBundles[2].bets) = 2
    /\ currentBundles[2].budget = R(100)
    /\ metrics.bundle_metrics[2].total_allocation = Zero
    /\ metrics.bundle_metrics[2].avg_payout_multiplier = R(1)
    /\ metrics.bundle_metrics[1].avg_payout_multiplier = R(1)
    /\ metrics.overall_risk_score = Zero
    /\ metrics.total_budget = R(100)


\* C24: the risk score of an empty bet list, and of a bet list whose allocations
\* sum to 0 or less, is exactly 0 whatever the prices.
C24_RiskScoreZeroWithoutAllocation ==
    (~IsNaN(rScore) /\ (Len(rBets) = 0 \/ RLe(SumSeq([i \in 1..Len(rBets) |-> rBets[i].allocation]), Zero)))
        => rScore = Zero

\* C24 witness: the score of a two-bet list with allocations -1 and 0, priced at
\* 0.25 and 1, is 0.
C24_Witness ==
    /\ rScore = Zero
    /\ Len(rBets) = 2
    /\ rBets[1].allocation = R(-1) /\ rBets[2].allocation = Zero
    /\ rBets[1].current_price = Frac(1, 4) /\ rBets[2].current_price = R(1)


\* the pristine bundles all have one budget
PristineSharesOneBudget ==
    \A i, j \in 1..Len(originalBundles) : originalBundles[i].budget = originalBundles[j].budget

\* C25: from a loaded portfolio whose bundles share one budget, once the issued
\* triggers have completed every working bundle has the budget of the most
\* recently accepted budget change, or of the load if none was accepted.
C25_OneBudgetInForce ==
    (Loaded /\ pending = <<>> /\ PristineSharesOneBudget) =>
        \A i \in 1..Len(currentBundles) : currentBundles[i].budget = inForce

\* the pristine bundles have positive budgets and non-negative allocations
PristineIsSound ==
    \A i \in 1..Len(originalBundles) :
        LET b == DerefBundle(heap, originalBundles[i])
        IN  /\ RLt(Zero, b.budget)
            /\ \A j \in 1..Len(b.bets) : RLe(Zero, b.bets[j].allocation)

\* C26: from a loaded portfolio with positive budgets and non-negative
\* allocations, once the issued triggers have completed every working bundle has
\* a budget above 0 and every allocation lies between 0 and its bundle's budget.
C26_BudgetsPositiveAllocationsInRange ==
    (Loaded /\ pending = <<>> /\ PristineIsSound) =>
        \A i \in 1..Len(currentBundles) :
            LET b == DerefBundle(heap, currentBundles[i])
            IN  /\ RLt(Zero, b.budget)
                /\ \A j \in 1..Len(b.bets) :
                      RLe(Zero, b.bets[j].allocation) /\ RLe(b.bets[j].allocation, b.budget)


\* C27: an allocation edit or a reset addressed to bundle i hands on every other
\* bundle as the handler read it: same budget, same total_allocated, the same
\* bet objects, and none of those bet objects is written.
C27_OtherBundlesUntouched ==
    [][(nops' = nops + 1 /\ last'.op \in {"allocation", "reset"}) =>
          /\ Len(Latest') = Len(currentBundles)
          /\ \A j \in 1..Len(currentBundles) :
                j # last'.bundle =>
                    /\ Latest'[j] = currentBundles[j]
                    /\ DerefBundle(heap', Latest'[j]) = DerefBundle(heap, currentBundles[j])]_vars

\* C27 witness: in the portfolio [70, 30] @ 100 and [50, 0] @ 50 the first bet of
\* the first bundle was edited to 20; the second bundle is as loaded.
C27_Witness ==
    /\ Settled /\ nops = 1
    /\ last.op = "allocation" /\ last.bundle = 1 /\ last.bet = 1 /\ last.value = R(20)
    /\ Len(currentBundles) = 2
    /\ Len(currentBundles[1].bets) = 2 /\ Len(currentBundles[2].bets) = 2
    /\ LET b == Deref(heap, currentBundles)
       IN  /\ b[1].bets[1].allocation = R(20) /\ b[1].bets[2].allocation = R(80)
           /\ b[2].budget = R(50) /\ b[2].total_allocated = R(50)
           /\ b[2].bets[1].allocation = R(50) /\ b[2].bets[2].allocation = Zero
           /\ b[2] = DerefBundle(heap, originalBundles[2])


\* the allocations of a bundle's bets
Allocations(bundle) == Array([j \in 1..Len(bundle.bets) |-> bundle.bets[j].allocation])

\* C28: in a bundle of at least two bets whose allocations sum to its positive
\* budget, an allocation edit of one bet to a value strictly below the budget
\* followed by an edit of the same bet back to the value it had restores every
\* allocation of the bundle.  (The first edit is the first trigger after the
\* load, so the pristine bundle holds the values the bets had.)
C28_EditAndEditBackRestores ==
    [][(/\ nops = 1 /\ nops' = 2
        /\ last.op = "allocation" /\ last'.op = "allocation"
        /\ last'.bundle = last.bundle /\ last'.bet = last.bet
        /\ LET before == DerefBundle(heap, originalBundles[last.bundle])
           IN  /\ Len(before.bets) >= 2
               /\ RLt(Zero, before.budget)
               /\ SumAllocations(before) = before.budget
               /\ RLt(last.value, before.budget)
               /\ last'.value = before.bets[last.bet].allocation)
        => Allocations(DerefBundle(heap', currentBundles[last.bundle]))
              = Allocations(DerefBundle(heap, originalBundles[last.bundle]))]_vars

\* C28 witness: in the bundle [60, 40, 0] the second bet was edited twice, last
\* to 40, the value it had; both edits are committed and the allocations are
\* [60, 40, 0].
C28_Witness ==
    /\ Settled /\ nops = 2
    /\ last.op = "allocation" /\ last.bundle = 1 /\ last.bet = 2 /\ last.value = R(40)
    /\ Len(currentBundles[1].bets) = 3
    /\ Allocations(DerefBundle(heap, currentBundles[1])) = <<R(60), R(40), Zero>>
    /\ DerefBundle(heap, currentBundles[1]).bets[1].potential_payout = R(120)


\* C29: an accepted budget change hands on every bundle with the risk score it
\* had when the handler read it.
C29_BudgetChangeKeepsRiskScores ==
    [][(nops' = nops + 1 /\ last'.op = "budget" /\ last'.accepted) =>
          /\ Len(Latest') = Len(currentBundles)
          /\ \A i \in 1..Len(currentBundles) :
                calculateRiskScore(DerefBundle(heap', Latest'[i]).bets)
                    = calculateRiskScore(DerefBundle(heap, currentBundles[i]).bets)]_vars

\* C29 witness: the bundle [90, 10] of budget 100, priced at 0.05, was rescaled
\* to budget 50, allocations [45, 5]; its risk score is the one of the loaded
\* bundle and lies below the score of a clamped standard deviation.
C29_Witness ==
    /\ Settled /\ nops = 1
    /\ last.op = "budget" /\ last.accepted /\ last.val = <<"5", "0">>
    /\ Len(currentBundles) = 1
    /\ currentBundles[1].budget = R(50)
    /\ Allocations(DerefBundle(heap, currentBundles[1])) = <<R(45), R(5)>>
    /\ Allocations(DerefBundle(heap, originalBundles[1])) = <<R(90), R(10)>>
    /\ metrics.bundle_metrics[1].risk_score
          = calculateRiskScore(DerefBundle(heap, originalBundles[1]).bets)
    /\ RLt(Zero, metrics.bundle_metrics[1].risk_score)
    /\ RLt(metrics.bundle_metrics[1].risk_score, R(70))


\* the events of the event messages, in stream order
RECURSIVE Expected(_)
Expected(ms) ==
    IF ms = <<>> THEN <<>>
    ELSE (IF Head(ms).kind = "event"
          THEN <<[type |-> Head(ms).type, data |-> Head(ms).value]>> ELSE <<>>)
             \o Expected(Tail(ms))

\* the number of characters of the body the reader has returned
Consumed == Len(StreamText(sMessages)) - Len(body)

\* the messages whose blank line has been returned in full
Arrived ==
    LET K == {k \in 0..Len(sMessages) :
                /\ Len(StreamText(SubSeq(sMessages, 1, k))) <= Consumed
                /\ k > 0 => sMessages[k].terminated}
    IN  SubSeq(sMessages, 1, CHOOSE k \in K : \A j \in K : j <= k)

====
